---- MODULE Spec2Model ----
(***************************************************************************)
(* SafeZonePeru: the feedback-driven retraining controller.                *)
(*   ratings.py     rating store, trigger policy, hyperparameter policy,   *)
(*                  trigger_retrain (inline coordinator)                   *)
(*   app.py         the rating form's submit handler (one per session)     *)
(*   ci_retrain.py  the external executor of RETRAIN_REQUEST.json          *)
(* Time is counted in whole days; a timestamp is the clock reading of the  *)
(* statement that took it (ISO strings of one fixed-offset zone order as   *)
(* the instants they denote).                                              *)
(***************************************************************************)
EXTENDS Integers, Sequences, FiniteSets, Bags, TLC

\* ---------------------------------------------------------------- bounds
MaxTime == 14
MaxRatings == 6
\* the store called directly: rows per table and clock readings
MaxStoreRatings == 2
MaxLogs == 2
MaxStoreTime == 1
\* _decide_hyperparams: averages num/den with num <= MaxNum, den <= MaxDen
MaxNum == 10
MaxDen == 2
\* the executor: requests written, invocations of main, chunks of one request
MaxRequests == 2
MaxCalls == 3
RequestLen == 2
\* save_with_backup called directly: calls per artifact name, clock readings,
\* values of max_backups
MaxSaves == 4
MaxSec == 2
MaxKeep == 2
\* sort_clusters: components of the model, entities, size of a feature value
MaxK == 3
MaxEntities == 3
MaxAbs == 1
\* find_best_k_gmm: length of k_range, size of a BIC value
MaxRange == 3
MaxBic == 1
\* count_low_ratings alone: latest day, microseconds of an instant, stored rows
MaxDay == 11
MaxMicro == 1
MaxCountRows == 2
\* department aggregation: rows of the pivot table, size of a count
MaxDeptRows == 2
MaxCnt == 1
\* run_training executions
MaxRuns == 2

\* ------------------------------------------------------ program constants
window_days == 7
low_threshold == 2
trigger_count == 5
NULL == -1

Sessions == {"s1", "s2"}
req_path == "RETRAIN_REQUEST.json"
tmp_path == "RETRAIN_REQUEST.json.tmp"
result_path == "RETRAIN_RESULT.json"
Paths == {req_path, tmp_path, result_path}
\* two statements read the clock on the same day or a whole window apart, so
\* a row is inside the window, exactly at its cutoff, or outside it
TickDays == {window_days}
\* values the rating form can submit (app.py number_input 0..5)
FormStars == {2, 3}
\* texts of the exceptions the training pipeline raises
ErrorTexts == {"FileNotFoundError"}
NoError == "none"

VARIABLES
    now,        \* the wall clock, in days
    ratings,    \* table ratings: the bag of its rows (no query reads the id)
    logs,       \* table retrain_logs: sequence of rows, index = id
    pc,         \* session -> position in the submit handler / trigger_retrain
    loc,        \* session -> local variables of trigger_retrain
    raised,     \* log id -> text of the exception the pipeline raised for it
    call,       \* the last direct call of a store function and its outcome
    arg,        \* the input of the pure function under check
    ret,        \* <<>> before it is applied, <<result>> after
    files,      \* path -> content of the handoff files (<<>> = no such file)
    wr,         \* the writer of the retrain request
    ci,         \* ci_retrain.main: position, payload, what it saw, exit code
    runs,       \* request id -> number of pipeline runs made for it
    disk,       \* models/, model_backup/ and the result tables in data/
    tr          \* train.py: position of run_training, clock of the file system

vars == <<now, ratings, logs, pc, loc, raised, call, arg, ret, files, wr, ci, runs,
          disk, tr>>

trainVars == <<disk, tr>>

dbVars == <<now, ratings, logs>>
appVars == <<pc, loc, raised>>
fnVars == <<arg, ret>>
ciVars == <<files, wr, ci, runs>>
NotApp == <<call, arg, ret, files, wr, ci, runs>>

\* --------------------------------------------------- train.py: the artifacts
\* file stems of the artifacts, as the words an underscore separates
\* (train.py 100, 106)
Granularities == {"departamental", "distrital"}
ModelName(g) == <<"modelo", "gmm", g>>
ScalerName(g) == <<"scaler", g>>
ArtifactNames == {ModelName(g) : g \in Granularities} \cup {ScalerName(g) : g \in Granularities}
\* train.py 10: max_backups=5
max_backups == 5

NoDisk ==
    [live |-> [n \in ArtifactNames |-> <<>>], backup |-> {},
     out |-> [g \in Granularities |-> 0]]
\* sec: datetime.now() to the second; mt: the modification time the next
\* written file gets; saves: completed save_with_backup calls per name
TrIdle ==
    [pc |-> "idle", run |-> 0, sec |-> 0, mt |-> 1, keep |-> max_backups,
     saves |-> [n \in ArtifactNames |-> 0]]

IsPrefix(a, b) == Len(a) <= Len(b) /\ SubSeq(b, 1, Len(a)) = a

\* path_backup.glob(f"{stem}_*{suffix}"): the backup files whose name starts
\* with the words of stem
glob(B, stem) == {f \in B : IsPrefix(stem, f.stem)}

\* the n files of S with the latest modification time
RECURSIVE Newest(_, _)
Newest(S, n) ==
    IF n = 0 \/ S = {} THEN {}
    ELSE LET f == CHOOSE x \in S : \A y \in S : y.mtime <= x.mtime
         IN {f} \cup Newest(S \ {f}, n - 1)

\* shutil.move(file_path, backup_path): the backup gets the name
\* stem_timestamp and replaces a file of that name
move_to_backup(B, stem, sec, file) ==
    {f \in B : ~(f.stem = stem /\ f.ts = sec)}
        \cup {[stem |-> stem, ts |-> sec, obj |-> file.obj, mtime |-> file.mtime]}

\* train.py 26-34: of the backups the glob matches only the keep newest stay
prune(B, stem, keep) ==
    (B \ glob(B, stem)) \cup Newest(glob(B, stem), keep)

\* train.py 10-37
save_with_backup(D, stem, obj, sec, mt, keep) ==
    LET B == IF D.live[stem] = <<>> THEN D.backup
             ELSE prune(move_to_backup(D.backup, stem, sec, D.live[stem][1]), stem, keep)
    IN [D EXCEPT !.backup = B,
                 !.live[stem] = <<[obj |-> obj, mtime |-> mt]>>]

\* ------------------------------------------------------------ rating store
RatingRow(t, stars) == [created_at |-> t, stars |-> stars]

\* the rows of R that lie in the set S of rows
Rows(R, S) == [r \in DOMAIN R \cap S |-> R[r]]

\* ratings.py add_rating: no range check on stars
add_rating(R, t, stars) == R (+) SetToBag({RatingRow(t, stars)})

cutoff(t, w) == t - w

\* counts every low rating ever stored
count_low_ratings_nowindow(R, t, thr, w) ==
    BagCardinality(Rows(R, {r \in DOMAIN R : r.stars <= thr}))

count_low_ratings(R, t, thr, w) ==
    BagCardinality(Rows(R, {r \in DOMAIN R : r.stars <= thr /\ r.created_at >= cutoff(t, w)}))

\* misses an entry started exactly at the cutoff
recent_retrains_strict(L, t, w) ==
    Cardinality({i \in DOMAIN L : L[i].started_at > cutoff(t, w) /\ L[i].success = 1})

\* lacks `AND success = 1`: a Failure or Pending entry counts as well
recent_retrains_any(L, t, w) ==
    Cardinality({i \in DOMAIN L : L[i].started_at >= cutoff(t, w)})

recent_retrains(L, t, w) ==
    Cardinality({i \in DOMAIN L : L[i].started_at >= cutoff(t, w) /\ L[i].success = 1})

RECURSIVE SumStars(_, _)
SumStars(R, S) ==
    IF S = {} THEN 0
    ELSE LET r == CHOOSE x \in S : TRUE IN R[r] * r.stars + SumStars(R, S \ {r})

\* AVG(stars), COUNT(*) over the window; the average is kept as an exact
\* fraction num/den, (0.0, 0) on an empty window
get_rating_stats(R, t, w) ==
    LET S == {r \in DOMAIN R : r.created_at >= cutoff(t, w)}
        cnt == BagCardinality(Rows(R, S))
    IN IF S = {} THEN [num |-> 0, den |-> 1, total |-> 0]
       ELSE [num |-> SumStars(R, S), den |-> cnt, total |-> cnt]

\* ----------------------------------------------------- hyperparameter policy
BaseParams ==
    [k_min |-> 2, k_max |-> 11, covariance_type |-> "diag",
     max_iter |-> 500, n_init |-> 10, random_state |-> 42]

\* `if` in place of `elif`: both escalations apply to an average <= 2.0
AvgStep_both(p, num, den) ==
    LET q == IF num <= 2 * den
             THEN [p EXCEPT !.k_max = @ + 2, !.n_init = @ + 10, !.max_iter = @ + 300]
             ELSE p
    IN IF num <= 3 * den
       THEN [q EXCEPT !.k_max = @ + 1, !.n_init = @ + 5, !.max_iter = @ + 100]
       ELSE q

AvgStep(p, num, den) ==
    IF num <= 2 * den
    THEN [p EXCEPT !.k_max = @ + 2, !.n_init = @ + 10, !.max_iter = @ + 300]
    ELSE IF num <= 3 * den
    THEN [p EXCEPT !.k_max = @ + 1, !.n_init = @ + 5, !.max_iter = @ + 100]
    ELSE p

LowStep(p, low_count) ==
    IF low_count >= 20
    THEN [p EXCEPT !.k_max = @ + 2, !.n_init = @ + 10]
    ELSE p

decide_hyperparams(num, den, low_count) ==
    LowStep(AvgStep(BaseParams, num, den), low_count)

\* ------------------------------------------------------------- retrain log
LogRow(started, avg, low, params) ==
    [started_at |-> started, finished_at |-> NULL, avg_rating |-> avg,
     low_count |-> low, params |-> params, success |-> NULL]

create_retrain_entry(L, started, avg, low, params) ==
    Append(L, LogRow(started, avg, low, params))

\* writes 1 whatever the outcome
finalize_retrain_entry_one(L, rid, finished, success) ==
    [i \in DOMAIN L |->
        IF i = rid THEN [L[i] EXCEPT !.finished_at = finished, !.success = 1]
        ELSE L[i]]

\* UPDATE ... WHERE id = rid: no guard on the current status
finalize_retrain_entry(L, rid, finished, success) ==
    [i \in DOMAIN L |->
        IF i = rid
        THEN [L[i] EXCEPT !.finished_at = finished,
                          !.success = IF success THEN 1 ELSE 0]
        ELSE L[i]]

\* ------------------------------------------------------------ the sessions
InitLoc ==
    [low_cnt |-> 0, avg |-> [num |-> 0, den |-> 1], low |-> 0, rid |-> 0,
     success |-> FALSE, ok |-> FALSE, exc |-> NoError]

NoCall == [op |-> "none", id |-> 0, stars |-> 0, outcome |-> "ok"]
NoFiles == [p \in Paths |-> <<>>]
WriterIdle == [pc |-> "idle", next |-> 1]
CiIdle == [pc |-> "idle", payload |-> <<>>, observed |-> "nothing", rc |-> 0, calls |-> 0]

DbEmpty == now = 0 /\ ratings = EmptyBag /\ logs = <<>>
AppIdle ==
    /\ pc = [s \in Sessions |-> "idle"]
    /\ loc = [s \in Sessions |-> InitLoc]
    /\ raised = <<>>
StoreIdle == call = NoCall
FnIdle == arg = <<>> /\ ret = <<>>
CiIdleAll ==
    /\ files = NoFiles
    /\ wr = WriterIdle
    /\ ci = CiIdle
    /\ runs = [r \in 1..MaxRequests |-> 0]

\* nothing trained yet: models/, model_backup/ and data/ hold no file
TrainIdle ==
    /\ disk = NoDisk
    /\ tr = TrIdle

\* ratings.py 204-205: the tables exist and are empty, every session idle
AppInit == DbEmpty /\ AppIdle /\ StoreIdle /\ FnIdle /\ CiIdleAll /\ TrainIdle

Tick ==
    /\ \E d \in TickDays :
        /\ now + d <= MaxTime
        /\ now' = now + d
    /\ UNCHANGED <<ratings, logs, pc, loc, raised>>
    /\ UNCHANGED NotApp
    /\ UNCHANGED trainVars

\* app.py 165-167: the form is submitted and the rating stored
Submit(s) ==
    /\ pc[s] = "idle"
    /\ BagCardinality(ratings) < MaxRatings
    /\ \E stars \in FormStars : ratings' = add_rating(ratings, now, stars)
    /\ pc' = [pc EXCEPT ![s] = "app_low"]
    /\ loc' = [loc EXCEPT ![s] = InitLoc]
    /\ UNCHANGED <<now, logs, raised>>
    /\ UNCHANGED NotApp
    /\ UNCHANGED trainVars

\* should_trigger_retrain, first query (ratings.py 79-81)
CheckLow(s, at, next) ==
    /\ pc[s] = at
    /\ LET low_cnt == count_low_ratings(ratings, now, low_threshold, window_days)
       IN /\ loc' = [loc EXCEPT ![s].low_cnt = low_cnt]
          /\ pc' = [pc EXCEPT ![s] = IF low_cnt < trigger_count THEN "idle" ELSE next]
    /\ UNCHANGED <<now, ratings, logs, raised>>
    /\ UNCHANGED NotApp
    /\ UNCHANGED trainVars

\* should_trigger_retrain, second query (ratings.py 84-93)
CheckLog(s, at, next) ==
    /\ pc[s] = at
    /\ pc' = [pc EXCEPT ![s] =
                IF recent_retrains(logs, now, window_days) = 0 THEN next ELSE "idle"]
    /\ UNCHANGED <<now, ratings, logs, loc, raised>>
    /\ UNCHANGED NotApp
    /\ UNCHANGED trainVars

\* app.py 174
AppCheckLow(s) == CheckLow(s, "app_low", "app_log")
AppCheckLog(s) == CheckLog(s, "app_log", "tr_low")
\* lacks `return False`: goes on whatever the count
TrCheckLow_noreturn(s) ==
    /\ pc[s] = "tr_low"
    /\ pc' = [pc EXCEPT ![s] = "tr_log"]
    /\ UNCHANGED <<now, ratings, logs, loc, raised>>
    /\ UNCHANGED NotApp
    /\ UNCHANGED trainVars

\* ratings.py 177
TrCheckLow(s) == CheckLow(s, "tr_low", "tr_log")
TrCheckLog(s) == CheckLog(s, "tr_log", "tr_stats")

\* ratings.py 181
TrStats(s) ==
    /\ pc[s] = "tr_stats"
    /\ LET st == get_rating_stats(ratings, now, window_days)
       IN loc' = [loc EXCEPT ![s].avg = [num |-> st.num, den |-> st.den]]
    /\ pc' = [pc EXCEPT ![s] = "tr_count"]
    /\ UNCHANGED <<now, ratings, logs, raised>>
    /\ UNCHANGED NotApp
    /\ UNCHANGED trainVars

\* ratings.py 182
TrCount(s) ==
    /\ pc[s] = "tr_count"
    /\ loc' = [loc EXCEPT ![s].low =
                 count_low_ratings(ratings, now, low_threshold, window_days)]
    /\ pc' = [pc EXCEPT ![s] = "tr_create"]
    /\ UNCHANGED <<now, ratings, logs, raised>>
    /\ UNCHANGED NotApp
    /\ UNCHANGED trainVars

\* ratings.py 184-187
TrCreate(s) ==
    /\ pc[s] = "tr_create"
    /\ logs' = create_retrain_entry(logs, now, loc[s].avg, loc[s].low,
                  decide_hyperparams(loc[s].avg.num, loc[s].avg.den, loc[s].low))
    /\ loc' = [loc EXCEPT ![s].rid = Len(logs) + 1]
    /\ raised' = Append(raised, NoError)
    /\ pc' = [pc EXCEPT ![s] = "running"]
    /\ UNCHANGED <<now, ratings>>
    /\ UNCHANGED NotApp
    /\ UNCHANGED trainVars

\* the exception still in flight after `except Exception:` (ratings.py 195)
except_Exception(e) == NoError

\* ratings.py 193-194: train.run_training returns
TrRunOk(s) ==
    /\ pc[s] = "running"
    /\ loc' = [loc EXCEPT ![s].success = TRUE]
    /\ pc' = [pc EXCEPT ![s] = "tr_final"]
    /\ UNCHANGED <<now, ratings, logs, raised>>
    /\ UNCHANGED NotApp
    /\ UNCHANGED trainVars

\* ratings.py 193, 195-196: train.run_training raises
TrRunRaise(s) ==
    /\ pc[s] = "running"
    /\ \E e \in ErrorTexts :
        /\ raised' = [raised EXCEPT ![loc[s].rid] = e]
        /\ loc' = [loc EXCEPT ![s].success = FALSE, ![s].exc = except_Exception(e)]
    /\ pc' = [pc EXCEPT ![s] = "tr_final"]
    /\ UNCHANGED <<now, ratings, logs>>
    /\ UNCHANGED NotApp
    /\ UNCHANGED trainVars

\* ratings.py 197-201
TrFinalize(s) ==
    /\ pc[s] = "tr_final"
    /\ logs' = finalize_retrain_entry(logs, loc[s].rid, now, loc[s].success)
    /\ loc' = [loc EXCEPT ![s].ok = loc[s].success]
    /\ pc' = [pc EXCEPT ![s] = "idle"]
    /\ UNCHANGED <<now, ratings, raised>>
    /\ UNCHANGED NotApp
    /\ UNCHANGED trainVars

Next ==
    \/ Tick
    \/ \E s \in Sessions : Submit(s)
    \/ \E s \in Sessions : AppCheckLow(s)
    \/ \E s \in Sessions : AppCheckLog(s)
    \/ \E s \in Sessions : TrCheckLow(s)
    \/ \E s \in Sessions : TrCheckLog(s)
    \/ \E s \in Sessions : TrStats(s)
    \/ \E s \in Sessions : TrCount(s)
    \/ \E s \in Sessions : TrCreate(s)
    \/ \E s \in Sessions : TrRunOk(s)
    \/ \E s \in Sessions : TrRunRaise(s)
    \/ \E s \in Sessions : TrFinalize(s)

Spec == AppInit /\ [][Next]_vars

\* ------------------------------------------- the store functions called directly
\* arguments a caller can pass to add_rating
StarsArgs == {-1, 0, 5, 6}

StoreTick ==
    /\ now < MaxStoreTime
    /\ now' = now + 1
    /\ UNCHANGED <<ratings, logs, call>>
    /\ UNCHANGED <<appVars, fnVars, ciVars>>
    /\ UNCHANGED trainVars

\* add_rating(stars): returns normally for every integer
CallAddRating ==
    /\ BagCardinality(ratings) < MaxStoreRatings
    /\ \E x \in StarsArgs :
        /\ ratings' = add_rating(ratings, now, x)
        /\ call' = [op |-> "add_rating", id |-> 0, stars |-> x, outcome |-> "ok"]
    /\ UNCHANGED <<now, logs>>
    /\ UNCHANGED <<appVars, fnVars, ciVars>>
    /\ UNCHANGED trainVars

\* _create_retrain_entry(started_at, avg_rating, low_count, params)
CallCreate ==
    /\ Len(logs) < MaxLogs
    /\ LET st == get_rating_stats(ratings, now, window_days)
           avg == [num |-> st.num, den |-> st.den]
           low == count_low_ratings(ratings, now, low_threshold, window_days)
       IN logs' = create_retrain_entry(logs, now, avg, low,
                                       decide_hyperparams(avg.num, avg.den, low))
    /\ call' = [op |-> "create", id |-> Len(logs) + 1, stars |-> 0, outcome |-> "ok"]
    /\ UNCHANGED <<now, ratings>>
    /\ UNCHANGED <<appVars, fnVars, ciVars>>
    /\ UNCHANGED trainVars

\* _finalize_retrain_entry(rid, finished_at, success): returns normally for
\* every rid, also one that is already finalized or has no row
CallFinalize ==
    /\ \E rid \in 1..MaxLogs, success \in BOOLEAN :
        /\ logs' = finalize_retrain_entry(logs, rid, now, success)
        /\ call' = [op |-> "finalize", id |-> rid, stars |-> 0, outcome |-> "ok"]
    /\ UNCHANGED <<now, ratings>>
    /\ UNCHANGED <<appVars, fnVars, ciVars>>
    /\ UNCHANGED trainVars

StoreNext == StoreTick \/ CallAddRating \/ CallCreate \/ CallFinalize

SpecStore == AppInit /\ [][StoreNext]_vars

\* ------------------------------------------------------ _decide_hyperparams alone
HyperInputs ==
    [num : 0..MaxNum, den : 1..MaxDen, low_count : {0, 19, 20, 25}]

HyperInit ==
    /\ DbEmpty /\ AppIdle /\ StoreIdle /\ CiIdleAll /\ TrainIdle
    /\ arg \in HyperInputs
    /\ ret = <<>>

ApplyHyper ==
    /\ ret = <<>>
    /\ ret' = <<decide_hyperparams(arg.num, arg.den, arg.low_count)>>
    /\ UNCHANGED <<arg, dbVars, appVars, call, ciVars>>
    /\ UNCHANGED trainVars

HyperNext == ApplyHyper

SpecHyper == HyperInit /\ [][HyperNext]_vars

\* ------------------------------------------------ the deferred handoff (files)
\* a request file holds the chunks written so far of the record of request id
Request(id, n) == <<[id |-> id, bytes |-> n]>>

\* writes the record in place, without a temporary file
signal_write_inplace == req_path

\* the path the coordinator writes the signal to before it renames it
signal_write_path == tmp_path

\* 4.4(b): open the file for writing (truncates it)
WBegin ==
    /\ wr.pc = "idle"
    /\ wr.next <= MaxRequests
    /\ files' = [files EXCEPT ![signal_write_path] = Request(wr.next, 0)]
    /\ wr' = [wr EXCEPT !.pc = "writing"]
    /\ UNCHANGED <<ci, runs, dbVars, appVars, call, fnVars>>
    /\ UNCHANGED trainVars

\* one more chunk of the record reaches the file
WWrite ==
    /\ wr.pc = "writing"
    /\ files[signal_write_path][1].bytes < RequestLen
    /\ files' = [files EXCEPT ![signal_write_path] =
                    Request(wr.next, files[signal_write_path][1].bytes + 1)]
    /\ UNCHANGED <<wr, ci, runs, dbVars, appVars, call, fnVars>>
    /\ UNCHANGED trainVars

\* the complete file is renamed onto the request path in one step
WRename ==
    /\ wr.pc = "writing"
    /\ files[signal_write_path][1].bytes = RequestLen
    /\ files' = IF signal_write_path = req_path THEN files
                ELSE [files EXCEPT ![req_path] = files[signal_write_path],
                                   ![signal_write_path] = <<>>]
    /\ wr' = [pc |-> "idle", next |-> wr.next + 1]
    /\ UNCHANGED <<ci, runs, dbVars, appVars, call, fnVars>>
    /\ UNCHANGED trainVars

\* the writer is interrupted; what it wrote so far stays where it is
WInterrupt ==
    /\ wr.pc = "writing"
    /\ wr' = [pc |-> "idle", next |-> wr.next + 1]
    /\ UNCHANGED <<files, ci, runs, dbVars, appVars, call, fnVars>>
    /\ UNCHANGED trainVars

\* json.load: a record only when the whole text is there
json_valid(content) == content # <<>> /\ content[1].bytes = RequestLen

\* ci_retrain.py 13-15
CiExists ==
    /\ ci.pc = "idle"
    /\ ci.calls < MaxCalls
    /\ ci' = IF files[req_path] = <<>>
             THEN [ci EXCEPT !.calls = @ + 1, !.observed = "absent", !.rc = 0,
                             !.payload = <<>>]
             ELSE [ci EXCEPT !.calls = @ + 1, !.observed = "exists", !.pc = "load",
                             !.payload = <<>>]
    /\ UNCHANGED <<files, wr, runs, dbVars, appVars, call, fnVars>>
    /\ UNCHANGED trainVars

\* ci_retrain.py 17-24
CiLoad ==
    /\ ci.pc = "load"
    /\ ci' = IF files[req_path] = <<>>
             THEN [ci EXCEPT !.observed = "absent", !.rc = 2, !.pc = "idle"]
             ELSE IF ~json_valid(files[req_path])
             THEN [ci EXCEPT !.observed = "partial", !.rc = 2, !.pc = "idle"]
             ELSE [ci EXCEPT !.observed = "complete", !.pc = "run",
                             !.payload = files[req_path]]
    /\ UNCHANGED <<files, wr, runs, dbVars, appVars, call, fnVars>>
    /\ UNCHANGED trainVars

Result(id, status) == <<[id |-> id, status |-> status]>>

\* ci_retrain.py 27-38: the pipeline runs and returns; the request file stays
CiRunOk ==
    /\ ci.pc = "run"
    /\ runs' = [runs EXCEPT ![ci.payload[1].id] = @ + 1]
    /\ files' = [files EXCEPT ![result_path] = Result(ci.payload[1].id, "success")]
    /\ ci' = [ci EXCEPT !.pc = "idle", !.rc = 0]
    /\ UNCHANGED <<wr, dbVars, appVars, call, fnVars>>
    /\ UNCHANGED trainVars

\* ci_retrain.py 27-28, 39-49: the pipeline raises; the request file stays
CiRunFail ==
    /\ ci.pc = "run"
    /\ runs' = [runs EXCEPT ![ci.payload[1].id] = @ + 1]
    /\ files' = [files EXCEPT ![result_path] = Result(ci.payload[1].id, "failure")]
    /\ ci' = [ci EXCEPT !.pc = "idle", !.rc = 3]
    /\ UNCHANGED <<wr, dbVars, appVars, call, fnVars>>
    /\ UNCHANGED trainVars

CiNext ==
    \/ WBegin \/ WWrite \/ WRename \/ WInterrupt
    \/ CiExists \/ CiLoad \/ CiRunOk \/ CiRunFail

SpecCI == AppInit /\ [][CiNext]_vars

\* ------------------------------------------------ save_with_backup called directly
BackupInit ==
    /\ DbEmpty /\ AppIdle /\ StoreIdle /\ FnIdle /\ CiIdleAll
    /\ disk = NoDisk
    /\ \E n \in 1..MaxKeep : tr = [TrIdle EXCEPT !.keep = n]

\* the next second of the wall clock
SecTick ==
    /\ tr.sec < MaxSec
    /\ tr' = [tr EXCEPT !.sec = @ + 1]
    /\ UNCHANGED <<disk, dbVars, appVars, call, fnVars, ciVars>>

\* save_with_backup(obj, "models", stem + ".joblib", max_backups=tr.keep);
\* the object of the m-th call for a name is its version m
SaveCall ==
    /\ \E stem \in {ModelName("departamental"), ScalerName("departamental")} :
        /\ tr.saves[stem] < MaxSaves
        /\ disk' = save_with_backup(disk, stem, [run |-> tr.saves[stem] + 1],
                                    tr.sec, tr.mt, tr.keep)
        /\ tr' = [tr EXCEPT !.mt = @ + 1, !.saves[stem] = @ + 1]
    /\ UNCHANGED <<dbVars, appVars, call, fnVars, ciVars>>

BackupNext == SecTick \/ SaveCall

SpecBackup == BackupInit /\ [][BackupNext]_vars

\* ------------------------------------------------------------ sort_clusters alone
\* the mean of no value at all
NaN == [nan |-> TRUE, num |-> 0, den |-> 1]

RECURSIVE SumOver(_, _)
SumOver(X, S) ==
    IF S = {} THEN 0
    ELSE LET e == CHOOSE x \in S : TRUE IN X[e] + SumOver(X, S \ {e})

\* X_scaled[clusters == i].mean(): an exact fraction, NaN for no member
cluster_mean(X, clusters, i) ==
    LET S == {e \in DOMAIN clusters : clusters[e] = i}
    IN IF S = {} THEN NaN
       ELSE [nan |-> FALSE, num |-> SumOver(X, S), den |-> Cardinality(S)]

\* sorts NaN before every number
sorts_before_nanfirst(a, b) ==
    IF a.nan THEN ~b.nan ELSE ~b.nan /\ a.num * b.den < b.num * a.den

\* a must come before b in a sorted array: numbers ascending, NaN last
sorts_before(a, b) ==
    IF a.nan THEN FALSE ELSE b.nan \/ a.num * b.den < b.num * a.den

\* np.argsort(cluster_means): the orders of 0..k-1 that sort the means; equal
\* means come in either order
argsort(means, k) ==
    {o \in [1..k -> 0..(k - 1)] :
        /\ \A p, q \in 1..k : p # q => o[p] # o[q]
        /\ \A p, q \in 1..k : p < q => ~sorts_before(means[o[q]], means[o[p]])}

\* uses the sorted order itself as the map: new_map[new] = old
new_map_inverted(order, old) == order[old + 1]

\* new_map[old] = new for new, old in enumerate(order)
new_map(order, old) == (CHOOSE p \in DOMAIN order : order[p] = old) - 1

ClusterInputs ==
    UNION {[n_components : {k}, X : [1..n -> (0 - MaxAbs)..MaxAbs],
            clusters : [1..n -> 0..(k - 1)]] : k \in 2..MaxK, n \in 1..MaxEntities}

ClustersInit ==
    /\ DbEmpty /\ AppIdle /\ StoreIdle /\ CiIdleAll /\ TrainIdle
    /\ arg \in ClusterInputs
    /\ ret = <<>>

\* train.py 59-68
sort_clusters ==
    /\ ret = <<>>
    /\ LET means == [i \in 0..(arg.n_components - 1) |->
                        cluster_mean(arg.X, arg.clusters, i)]
       IN \E order \in argsort(means, arg.n_components) :
             ret' = <<[e \in DOMAIN arg.clusters |-> new_map(order, arg.clusters[e])]>>
    /\ UNCHANGED <<arg, dbVars, appVars, call, ciVars>>
    /\ UNCHANGED trainVars

ClustersNext == sort_clusters

SpecClusters == ClustersInit /\ [][ClustersNext]_vars

\* ---------------------------------------------------------- find_best_k_gmm alone
\* range(k_min, k_max + 1) as a list
k_range(k_min, k_max) == [i \in 1..(k_max - k_min + 1) |-> k_min + i - 1]

\* the GaussianMixture fitted for k components, with the BIC it scores
GaussianMixture(k, bic) == [n_components |-> k, bic |-> bic]

\* the last position of the minimum
argmin_last(bics) ==
    CHOOSE i \in DOMAIN bics :
        /\ \A j \in DOMAIN bics : bics[i] <= bics[j]
        /\ \A j \in DOMAIN bics : j > i => bics[j] > bics[i]

\* np.argmin: the first position of the minimum
argmin(bics) ==
    CHOOSE i \in DOMAIN bics :
        /\ \A j \in DOMAIN bics : bics[i] <= bics[j]
        /\ \A j \in DOMAIN bics : j < i => bics[j] > bics[i]

\* train.py 71-82; fit[i] is the BIC of the model fitted for k_range[i]
find_best_k_gmm(range, fit) ==
    LET models == [i \in DOMAIN range |-> GaussianMixture(range[i], fit[i])]
        bics == [i \in DOMAIN range |-> models[i].bic]
        best_idx == argmin(bics)
    IN <<range[best_idx], models[best_idx]>>

BestKInputs ==
    UNION {[k_min : {a}, k_max : {a + n - 1}, fit : [1..n -> (0 - MaxBic)..MaxBic]] :
              a \in 2..MaxK, n \in 1..MaxRange}

BestKInit ==
    /\ DbEmpty /\ AppIdle /\ StoreIdle /\ CiIdleAll /\ TrainIdle
    /\ arg \in BestKInputs
    /\ ret = <<>>

ApplyBestK ==
    /\ ret = <<>>
    /\ ret' = <<find_best_k_gmm(k_range(arg.k_min, arg.k_max), arg.fit)>>
    /\ UNCHANGED <<arg, dbVars, appVars, call, ciVars>>
    /\ UNCHANGED trainVars

BestKNext == ApplyBestK

SpecBestK == BestKInit /\ [][BestKNext]_vars

\* -------------------------------------------------------- count_low_ratings alone
\* An instant is a day number and the microseconds into it. The store keeps
\* datetime.now(TZ).isoformat() as TEXT and SQLite compares TEXT byte by byte.
FirstDay == 8
Instants == [day : FirstDay..MaxDay, micro : 0..MaxMicro]
Windows == {1, 2}
Thresholds == {1, 2}
CountStars == {1, 2, 3}

\* the characters of a timestamp in byte order
Chars == <<"-", ".", "0", "1", "2", "3", "4", "5", "6", "7", "8", "9", ":">>
Code(c) == CHOOSE i \in DOMAIN Chars : Chars[i] = c
Digit(n) == Chars[n + 3]

\* datetime.isoformat(): zero-padded fields, the fraction left out when the
\* microseconds are 0, the fixed offset of America/Lima at the end
isoformat(t) ==
    <<Digit(t.day \div 10), Digit(t.day % 10)>>
    \o (IF t.micro = 0 THEN <<>> ELSE <<".", Digit(t.micro)>>)
    \o <<"-", "0", "5", ":", "0", "0">>

\* datetime - timedelta(days=w)
minus_days(t, w) == [t EXCEPT !.day = @ - w]

\* a >= b for TEXT: the first differing byte decides, else the longer is greater
text_geq(a, b) ==
    LET n == IF Len(a) < Len(b) THEN Len(a) ELSE Len(b)
        D == {i \in 1..n : a[i] # b[i]}
    IN IF D = {} THEN Len(a) >= Len(b)
       ELSE LET i == CHOOSE x \in D : \A y \in D : x <= y
            IN Code(a[i]) > Code(b[i])

\* the ratings table after add_rating was called at the instants of `calls`
stored_ratings(calls) ==
    [i \in DOMAIN calls |-> RatingRow(isoformat(calls[i].at), calls[i].stars)]

\* created_at > ? in place of created_at >= ?
count_low_sql_strict(table, thr, cutoff_text) ==
    Cardinality({i \in DOMAIN table :
        /\ table[i].stars <= thr
        /\ table[i].created_at # cutoff_text
        /\ text_geq(table[i].created_at, cutoff_text)})

\* SELECT COUNT(*) FROM ratings WHERE stars <= ? AND created_at >= ?
count_low_sql(table, thr, cutoff_text) ==
    Cardinality({i \in DOMAIN table :
        table[i].stars <= thr /\ text_geq(table[i].created_at, cutoff_text)})

InstantLeq(a, b) == a.day < b.day \/ (a.day = b.day /\ a.micro <= b.micro)

\* add_rating calls in the order of the clock, none after `now`
CountInputs ==
    {a \in [calls : UNION {[1..n -> [at : Instants, stars : CountStars]] :
                              n \in 0..MaxCountRows},
            now : Instants, thr : Thresholds, window : Windows] :
        /\ \A i \in DOMAIN a.calls : InstantLeq(a.calls[i].at, a.now)
        /\ \A i, j \in DOMAIN a.calls :
              i < j => InstantLeq(a.calls[i].at, a.calls[j].at)}

CountInit ==
    /\ DbEmpty /\ AppIdle /\ StoreIdle /\ CiIdleAll /\ TrainIdle
    /\ arg \in CountInputs
    /\ ret = <<>>

\* ratings.py 58-69
ApplyCount ==
    /\ ret = <<>>
    /\ ret' = <<count_low_sql(stored_ratings(arg.calls), arg.thr,
                              isoformat(minus_days(arg.now, arg.window)))>>
    /\ UNCHANGED <<arg, dbVars, appVars, call, ciVars>>
    /\ UNCHANGED trainVars

CountNext == ApplyCount

SpecCount == CountInit /\ [][CountNext]_vars

\* ------------------------------------------------- department unification alone
\* a name is the sequence of its characters
Alphabet == <<"a", "b", "c", "d", "e", "f", "g", "h", "i", "j", "k", "l", "m", "n", "o", "p", "q", "r", "s", "t", "u", "v", "w", "x", "y", "z">>
Capitals == <<"A", "B", "C", "D", "E", "F", "G", "H", "I", "J", "K", "L", "M", "N", "O", "P", "Q", "R", "S", "T", "U", "V", "W", "X", "Y", "Z">>

\* str.upper() of one character
upper_char(c) ==
    IF \E i \in DOMAIN Alphabet : Alphabet[i] = c
    THEN Capitals[CHOOSE i \in DOMAIN Alphabet : Alphabet[i] = c]
    ELSE c

upper(name) == [i \in DOMAIN name |-> upper_char(name[i])]

\* sub in name
Contains(sub, name) ==
    \E i \in 1..(Len(name) - Len(sub) + 1) : SubSeq(name, i, i + Len(sub) - 1) = sub

LIMA == <<"L", "I", "M", "A">>
CALLAO == <<"C", "A", "L", "L", "A", "O">>

\* tests "CALLAO" before "LIMA"
unificar_departamentos_callao_first(nombre) ==
    LET n == upper(nombre)
    IN IF Contains(CALLAO, n) THEN CALLAO
       ELSE IF Contains(LIMA, n) THEN LIMA
       ELSE n

\* train.py 132-138
unificar_departamentos(nombre) ==
    LET n == upper(nombre)
    IN IF Contains(LIMA, n) THEN LIMA
       ELSE IF Contains(CALLAO, n) THEN CALLAO
       ELSE n

Categories == {"HURTO", "ROBO"}

RECURSIVE SumCnt(_, _, _)
SumCnt(rows, I, c) ==
    IF I = {} THEN 0
    ELSE LET i == CHOOSE x \in I : TRUE IN rows[i].cnt[c] + SumCnt(rows, I \ {i}, c)

\* .groupby("DPTO_UNIFICADO").sum(numeric_only=True)
groupby_sum(rows, keys) ==
    [k \in {keys[i] : i \in DOMAIN rows} |->
        [c \in Categories |-> SumCnt(rows, {i \in DOMAIN rows : keys[i] = k}, c)]]

\* train.py 140-162: the DPTO_UNIFICADO column and the grouped table
aggregate_departments(rows) ==
    LET keys == [i \in DOMAIN rows |-> unificar_departamentos(rows[i].name)]
    IN [DPTO_UNIFICADO |-> keys, grouped |-> groupby_sum(rows, keys)]

\* values of DPTO_HECHO_NEW
DeptNames ==
    {<<"L", "I", "M", "A", " ", "N", "O", "R", "T", "E">>,
     <<"L", "I", "M", "A", " ", "S", "U", "R">>,
     <<"C", "A", "L", "L", "A", "O">>,
     <<"C", "U", "S", "C", "O">>,
     <<"C", "u", "s", "c", "o">>,
     <<"L", "i", "m", "a">>,
     <<"L", "I", "M", "A", " ", "Y", " ", "C", "A", "L", "L", "A", "O">>}

DeptInputs ==
    UNION {[1..n -> [name : DeptNames, cnt : [Categories -> 0..MaxCnt]]] :
              n \in 1..MaxDeptRows}

DeptInit ==
    /\ DbEmpty /\ AppIdle /\ StoreIdle /\ CiIdleAll /\ TrainIdle
    /\ arg \in DeptInputs
    /\ ret = <<>>

ApplyAggregate ==
    /\ ret = <<>>
    /\ ret' = <<aggregate_departments(arg)>>
    /\ UNCHANGED <<arg, dbVars, appVars, call, ciVars>>
    /\ UNCHANGED trainVars

DeptNext == ApplyAggregate

SpecDept == DeptInit /\ [][DeptNext]_vars

\* ------------------------------------------------------------ run_training
\* tr.pc is the position inside run_training: fit_g is train_logic_gmm up to
\* sort_clusters for granularity g, model_g and scaler_g its two
\* save_with_backup calls, csv_g the to_csv of the result table of g.
TrainInit ==
    /\ DbEmpty /\ AppIdle /\ StoreIdle /\ FnIdle /\ CiIdleAll
    /\ disk = NoDisk
    /\ tr = TrIdle

TrainRest == <<dbVars, appVars, call, fnVars, ciVars>>

\* train.py 112-170: read the dataset, build the tables
TrainStart ==
    /\ tr.pc = "idle"
    /\ tr.run < MaxRuns
    /\ tr' = [tr EXCEPT !.pc = "fit_departamental", !.run = @ + 1]
    /\ UNCHANGED <<disk, TrainRest>>

\* train.py 88-95
TrainFit(g, next) ==
    /\ tr.pc = "fit_" \o g
    /\ tr' = [tr EXCEPT !.pc = next]
    /\ UNCHANGED <<disk, TrainRest>>

\* the scaler or GaussianMixture.fit raises: the exception leaves run_training
TrainFitRaise(g) ==
    /\ tr.pc = "fit_" \o g
    /\ tr' = [tr EXCEPT !.pc = "idle"]
    /\ UNCHANGED <<disk, TrainRest>>

\* train.py 97-101
TrainSaveModel(g) ==
    /\ tr.pc = "model_" \o g
    /\ disk' = save_with_backup(disk, ModelName(g), [run |-> tr.run],
                                tr.sec, tr.mt, tr.keep)
    /\ tr' = [tr EXCEPT !.pc = "scaler_" \o g, !.mt = @ + 1]
    /\ UNCHANGED TrainRest

\* train.py 103-107
TrainSaveScaler(g, next) ==
    /\ tr.pc = "scaler_" \o g
    /\ disk' = save_with_backup(disk, ScalerName(g), [run |-> tr.run],
                                tr.sec, tr.mt, tr.keep)
    /\ tr' = [tr EXCEPT !.pc = next, !.mt = @ + 1]
    /\ UNCHANGED TrainRest

\* train.py 189-197
TrainCsv(g, next) ==
    /\ tr.pc = "csv_" \o g
    /\ disk' = [disk EXCEPT !.out[g] = tr.run]
    /\ tr' = [tr EXCEPT !.pc = next]
    /\ UNCHANGED TrainRest

\* to_csv raises (no data directory, disk full)
TrainCsvRaise(g) ==
    /\ tr.pc = "csv_" \o g
    /\ tr' = [tr EXCEPT !.pc = "idle"]
    /\ UNCHANGED <<disk, TrainRest>>

\* the clock advances between two steps
TrainSecTick ==
    /\ tr.sec < MaxSec
    /\ tr' = [tr EXCEPT !.sec = @ + 1]
    /\ UNCHANGED <<disk, TrainRest>>

TrainNext ==
    \/ TrainStart
    \/ TrainFit("departamental", "model_departamental")
    \/ TrainFitRaise("departamental")
    \/ TrainSaveModel("departamental")
    \/ TrainSaveScaler("departamental", "fit_distrital")
    \/ TrainFit("distrital", "model_distrital")
    \/ TrainFitRaise("distrital")
    \/ TrainSaveModel("distrital")
    \/ TrainSaveScaler("distrital", "csv_departamental")
    \/ TrainCsv("departamental", "csv_distrital")
    \/ TrainCsvRaise("departamental")
    \/ TrainCsv("distrital", "idle")
    \/ TrainCsvRaise("distrital")
    \/ TrainSecTick

SpecTrain == TrainInit /\ [][TrainNext]_vars

\* ------------------------------------------- save_with_backup statement by statement
\* tr.pc is the statement the call is at, tr.stem the artifact name of the
\* call, tr.run the number of the call, which is also the version it writes.
SvIdle ==
    [pc |-> "idle", run |-> 0, sec |-> 0, mt |-> 1, keep |-> max_backups,
     saves |-> [n \in ArtifactNames |-> 0], stem |-> <<>>]

SaveInit ==
    /\ DbEmpty /\ AppIdle /\ StoreIdle /\ FnIdle /\ CiIdleAll
    /\ disk = NoDisk
    /\ tr = SvIdle

SaveRest == <<dbVars, appVars, call, fnVars, ciVars>>

\* a file joblib.dump has opened for writing and not finished
torn(run, mt) == [obj |-> [run |-> run, torn |-> TRUE], mtime |-> mt]

\* train.py 10-17: the call starts, the directories exist
SvBegin ==
    /\ tr.pc = "idle"
    /\ tr.run < MaxSaves
    /\ \E stem \in {ModelName("departamental"), ScalerName("departamental")} :
          tr' = [tr EXCEPT !.pc = "exists", !.run = @ + 1, !.stem = stem]
    /\ UNCHANGED <<disk, SaveRest>>

\* train.py 19: if file_path.exists()
SvExists ==
    /\ tr.pc = "exists"
    /\ tr' = [tr EXCEPT !.pc = IF disk.live[tr.stem] = <<>> THEN "dump" ELSE "move"]
    /\ UNCHANGED <<disk, SaveRest>>

\* train.py 20-24: shutil.move takes the live file away
SvMove ==
    /\ tr.pc = "move"
    /\ disk' = [disk EXCEPT
                   !.backup = move_to_backup(@, tr.stem, tr.sec, disk.live[tr.stem][1]),
                   !.live[tr.stem] = <<>>]
    /\ tr' = [tr EXCEPT !.pc = "prune"]
    /\ UNCHANGED SaveRest

\* train.py 26-34
SvPrune ==
    /\ tr.pc = "prune"
    /\ disk' = [disk EXCEPT !.backup = prune(@, tr.stem, tr.keep)]
    /\ tr' = [tr EXCEPT !.pc = "dump"]
    /\ UNCHANGED SaveRest

\* train.py 36: joblib.dump opens file_path for writing
SvDumpOpen ==
    /\ tr.pc = "dump"
    /\ disk' = [disk EXCEPT !.live[tr.stem] = <<torn(tr.run, tr.mt)>>]
    /\ tr' = [tr EXCEPT !.pc = "writing", !.mt = @ + 1]
    /\ UNCHANGED SaveRest

\* train.py 36-37: joblib.dump wrote the whole object and closed the file
SvDumpDone ==
    /\ tr.pc = "writing"
    /\ disk' = [disk EXCEPT !.live[tr.stem] =
                   <<[obj |-> [run |-> tr.run], mtime |-> disk.live[tr.stem][1].mtime]>>]
    /\ tr' = [tr EXCEPT !.pc = "idle", !.saves[tr.stem] = @ + 1]
    /\ UNCHANGED SaveRest

\* train.py 36: joblib.dump raises, before it opened the file or while it
\* writes; nothing in save_with_backup catches it
SvDumpRaise ==
    /\ tr.pc \in {"dump", "writing"}
    /\ tr' = [tr EXCEPT !.pc = "idle"]
    /\ UNCHANGED <<disk, SaveRest>>

SaveNext ==
    \/ SvBegin
    \/ SvExists
    \/ SvMove
    \/ SvPrune
    \/ SvDumpOpen
    \/ SvDumpDone
    \/ SvDumpRaise
    \/ SecTick

SpecSave == SaveInit /\ [][SaveNext]_vars

\* ========================================================== the claims

\* a call of should_trigger_retrain by session s returns False in this step
ReturnsFalse(s) ==
    /\ pc[s] \in {"app_low", "app_log", "tr_low", "tr_log"}
    /\ pc'[s] = "idle"

\* the log holds a Success entry started inside [t - w, t]
SuccessInWindow(L, t, w) ==
    \E i \in DOMAIN L :
        L[i].success = 1 /\ L[i].started_at >= t - w /\ L[i].started_at <= t

RECURSIVE Copies(_, _)
Copies(R, S) ==
    IF S = {} THEN 0
    ELSE LET r == CHOOSE x \in S : TRUE IN R[r] + Copies(R, S \ {r})

\* the number of ratings with stars <= thr created inside [t - w, t]
LowInWindow(R, t, thr, w) ==
    Copies(R, {r \in DOMAIN R :
                  r.stars <= thr /\ r.created_at >= t - w /\ r.created_at <= t})

\* C1: trigger dedup. should_trigger_retrain never returns True while the
\* retrain log holds a Success entry whose started_at lies in the trailing
\* window, however many low ratings the window holds.
C1_TriggerDedup ==
    [][\A s \in Sessions :
          (pc[s] \in {"app_log", "tr_log"} /\ pc'[s] # pc[s]
             /\ SuccessInWindow(logs, now, window_days))
          => ReturnsFalse(s)]_vars

\* C1 witness: a session's decision saw trigger_count or more low ratings and
\* was refused (it created no entry) while a Success entry is in the window
\* and a low rating was submitted after that retrain started.
C1_Witness ==
    \E s \in Sessions :
        /\ pc[s] = "idle" /\ loc[s].low_cnt >= trigger_count /\ loc[s].rid = 0
        /\ SuccessInWindow(logs, now, window_days)
        /\ LowInWindow(ratings, now, low_threshold, window_days) > trigger_count
        /\ \E i \in DOMAIN logs, r \in DOMAIN ratings :
              /\ logs[i].success = 1
              /\ r.stars <= low_threshold
              /\ r.created_at > logs[i].started_at

\* C6: should_trigger_retrain returns False whenever fewer than trigger_count
\* ratings with stars <= threshold lie in the trailing window, whatever the
\* average and whatever the log holds.
C6_BelowCountIsFalse ==
    [][\A s \in Sessions :
          (pc[s] \in {"app_low", "tr_low"} /\ pc'[s] # pc[s]
             /\ LowInWindow(ratings, now, low_threshold, window_days) < trigger_count)
          => ReturnsFalse(s)]_vars

\* C6 witness: a decision counted fewer than trigger_count low ratings and
\* returned False although trigger_count low ratings are stored (some have
\* left the window) and the log holds no Success entry.
C6_Witness ==
    \E s \in Sessions :
        /\ pc[s] = "idle" /\ loc[s].low_cnt \in 1..(trigger_count - 1)
        /\ Copies(ratings, {r \in DOMAIN ratings : r.stars <= low_threshold})
             >= trigger_count
        /\ \A i \in DOMAIN logs : logs[i].success # 1

\* C2: a log entry leaves Pending exactly once. A finalize of an entry that is
\* no longer Pending is rejected with a FinalizeError and changes neither its
\* status nor its finished_at.
C2_FinalizeOnce ==
    [][\A i \in DOMAIN logs :
          logs[i].success # NULL
          => /\ logs'[i].success = logs[i].success
             /\ logs'[i].finished_at = logs[i].finished_at
             /\ (call'.op = "finalize" /\ call'.id = i /\ (call' # call \/ logs' # logs))
                  => call'.outcome = "FinalizeError"]_vars

\* the error text a log row records (retrain_logs has no column for it)
ErrorTextOf(row) == IF "error" \in DOMAIN row THEN row.error ELSE NoError

\* C3: failure containment. When the pipeline raised during trigger_retrain,
\* the call has returned False with no exception in flight and the entry of
\* that attempt is a Failure that records the error text.
C3_FailureContainment ==
    \A s \in Sessions :
        (pc[s] = "idle" /\ loc[s].rid # 0 /\ raised[loc[s].rid] # NoError)
        => /\ loc[s].exc = NoError
           /\ loc[s].ok = FALSE
           /\ logs[loc[s].rid].success = 0
           /\ ErrorTextOf(logs[loc[s].rid]) = raised[loc[s].rid]

\* C4: at most one run_training execution is in progress at a time, and no
\* two runs that end in Success start within one window of each other.
C4_OneRunAtATime ==
    /\ Cardinality({s \in Sessions : pc[s] = "running"}) <= 1
    /\ \A i, j \in DOMAIN logs :
          (i < j /\ logs[i].success = 1 /\ logs[j].success = 1)
          => logs[j].started_at - logs[i].started_at > window_days

\* C5: snapshot consistency. The low_count recorded in the entry a session
\* created equals the count its trigger decision saw, hence >= trigger_count.
C5_SnapshotConsistency ==
    \A s \in Sessions :
        pc[s] \in {"running", "tr_final"}
        => /\ logs[loc[s].rid].low_count = loc[s].low_cnt
           /\ logs[loc[s].rid].low_count >= trigger_count

\* C7: rating validation. add_rating stores the rating for stars in 0..5,
\* fails with ValidationError otherwise, and every stored rating has stars
\* in 0..5.
C7_RatingValidation ==
    /\ \A r \in DOMAIN ratings : r.stars \in 0..5
    /\ (call.op = "add_rating" /\ call.stars \in 0..5)
          => /\ call.outcome = "ok"
             /\ \E r \in DOMAIN ratings : r.stars = call.stars
    /\ (call.op = "add_rating" /\ call.stars \notin 0..5)
          => call.outcome = "ValidationError"

\* the escalation table of the hyperparameter policy
Escalated(num, den, low_count) ==
    LET a == IF num <= 2 * den THEN <<2, 10, 300>>
             ELSE IF num <= 3 * den THEN <<1, 5, 100>> ELSE <<0, 0, 0>>
        b == IF low_count >= 20 THEN <<2, 10>> ELSE <<0, 0>>
    IN [k_min |-> 2, k_max |-> 11 + a[1] + b[1], covariance_type |-> "diag",
        max_iter |-> 500 + a[3], n_init |-> 10 + a[2] + b[2], random_state |-> 42]

\* C8: _decide_hyperparams is the base set plus the stacking escalations;
\* (1.5, 25) gives k_max 15, n_init 30, max_iter 800 and (4.5, 0) the base
\* set; k_min, covariance_type and the seed never change.
C8_DecideHyperparams ==
    ret # <<>>
    => /\ ret[1] = Escalated(arg.num, arg.den, arg.low_count)
       /\ ret[1].k_min = 2 /\ ret[1].covariance_type = "diag" /\ ret[1].random_state = 42
       /\ (arg.num = 3 /\ arg.den = 2 /\ arg.low_count = 25)
            => (ret[1].k_max = 15 /\ ret[1].n_init = 30 /\ ret[1].max_iter = 800)
       /\ (arg.num = 9 /\ arg.den = 2 /\ arg.low_count = 0)
            => ret[1] = [k_min |-> 2, k_max |-> 11, covariance_type |-> "diag",
                         max_iter |-> 500, n_init |-> 10, random_state |-> 42]

\* C8 witness: the policy was applied to avg_rating 1.5, low_count 25.
C8_Witness ==
    /\ ret # <<>>
    /\ arg = [num |-> 3, den |-> 2, low_count |-> 25]
    /\ ret[1].k_max = 15

\* C9: a RetrainRequest is consumed at most once: over any number of
\* invocations of ci_retrain.main the pipeline runs at most once per request.
C9_ConsumedAtMostOnce ==
    \A r \in DOMAIN runs : runs[r] <= 1

\* C10: atomic handoff. The reader in ci_retrain.main never observes a
\* partially written request: it finds no file or loads a complete record.
C10_NoPartialRead ==
    /\ ci.observed # "partial"
    /\ ci.pc = "run" => json_valid(ci.payload)

\* C10 witness: the reader loaded a complete request while a later write was
\* in progress or had been interrupted with the record partly written.
C10_Witness ==
    /\ ci.observed = "complete"
    /\ files[tmp_path] # <<>>
    /\ files[tmp_path][1].bytes \in 1..(RequestLen - 1)
    /\ files[tmp_path][1].id > ci.payload[1].id
    /\ wr.pc = "idle"

\* the backups kept of artifact name stem
BackupsOf(stem) == {f \in disk.backup : f.stem = stem}

Min(a, b) == IF a <= b THEN a ELSE b

\* C11: backup retention. After m >= 1 persistences of a name with
\* max_backups = N exactly min(m-1, N) backups of it remain, and they are the
\* most recently replaced versions.
C11_BackupRetention ==
    \A stem \in ArtifactNames :
        LET m == tr.saves[stem]
            n == Min(m - 1, tr.keep)
        IN m >= 1
           => /\ Cardinality(BackupsOf(stem)) = n
              /\ {f.obj.run : f \in BackupsOf(stem)} = (m - n)..(m - 1)

\* C12: no automatic retry. A call of trigger_retrain enters the pipeline once
\* and returns after its finalize; a Failure or Pending entry in the window
\* suppresses nothing: with no Success entry in the window the log query of
\* should_trigger_retrain lets the decision be True.
C12_NoAutomaticRetry ==
    [][\A s \in Sessions :
          /\ (pc'[s] = "running" /\ pc[s] # "running") => pc[s] = "tr_create"
          /\ (pc[s] = "running" /\ pc'[s] # pc[s]) => pc'[s] = "tr_final"
          /\ (pc[s] = "tr_final" /\ pc'[s] # pc[s]) => pc'[s] = "idle"
          /\ (pc[s] \in {"app_log", "tr_log"} /\ pc'[s] # pc[s]
                /\ ~SuccessInWindow(logs, now, window_days))
             => pc'[s] \in {"tr_low", "tr_stats"}]_vars

\* C12 witness: trigger_retrain decided to run while the window holds a
\* Failure entry and no Success entry.
C12_Witness ==
    \E s \in Sessions :
        /\ pc[s] = "tr_stats"
        /\ ~SuccessInWindow(logs, now, window_days)
        /\ \E i \in DOMAIN logs :
              logs[i].success = 0 /\ logs[i].started_at >= now - window_days

\* C18: inline runs finalize immediately. When a trigger_retrain call that
\* created an entry has returned, its entry is not Pending, has finished_at
\* set, is Success exactly when the pipeline raised nothing, and that is the
\* value returned; no two calls share an entry, and with every session idle
\* no entry is Pending.
C18_InlineFinalize ==
    /\ \A s \in Sessions :
          (pc[s] = "idle" /\ loc[s].rid # 0)
          => LET row == logs[loc[s].rid]
             IN /\ row.success # NULL
                /\ row.finished_at # NULL
                /\ (row.success = 1) <=> (raised[loc[s].rid] = NoError)
                /\ loc[s].ok <=> (row.success = 1)
    /\ \A s, t \in Sessions : (s # t /\ loc[s].rid # 0) => loc[s].rid # loc[t].rid
    /\ (\A s \in Sessions : pc[s] = "idle")
          => \A i \in DOMAIN logs : logs[i].success # NULL

\* C18 witness: every session is idle after one run that raised and one run
\* that succeeded.
C18_Witness ==
    /\ \A s \in Sessions : pc[s] = "idle"
    /\ \E i, j \in DOMAIN logs : logs[i].success = 0 /\ logs[j].success = 1
    /\ \E s \in Sessions : loc[s].rid # 0 /\ loc[s].ok

\* C19: a negative decision has no effect. When should_trigger_retrain is
\* false as trigger_retrain evaluates it, trigger_retrain returns False at
\* once: no entry created, no pipeline run, ratings, log entries, artifacts
\* and result tables unchanged.
C19_NegativeDecisionNoEffect ==
    [][\A s \in Sessions :
          (pc'[s] # pc[s] /\
             \/ (pc[s] = "tr_low"
                   /\ LowInWindow(ratings, now, low_threshold, window_days) < trigger_count)
             \/ (pc[s] = "tr_log" /\ SuccessInWindow(logs, now, window_days)))
          => /\ pc'[s] = "idle"
             /\ loc'[s].ok = FALSE /\ loc'[s].rid = 0
             /\ UNCHANGED <<ratings, logs, raised, disk>>]_vars

\* C19 witness: trigger_retrain is at its own evaluation of the decision (the
\* submit handler's evaluation was positive) and the decision is now negative.
C19_Witness ==
    \E s \in Sessions :
        \/ (pc[s] = "tr_low"
              /\ LowInWindow(ratings, now, low_threshold, window_days) < trigger_count)
        \/ (pc[s] = "tr_log" /\ SuccessInWindow(logs, now, window_days))

\* the entities that sort_clusters gave label l
Labelled(l) == {e \in DOMAIN ret[1] : ret[1][e] = l}

OutputLabels == {ret[1][e] : e \in DOMAIN ret[1]}

\* C13: cluster relabeling is monotonic. For output labels i < j the mean
\* standardized severity of the entities labelled i is <= that of the
\* entities labelled j.
C13_RelabelMonotonic ==
    ret # <<>>
    => \A i, j \in OutputLabels :
          i < j => SumOver(arg.X, Labelled(i)) * Cardinality(Labelled(j))
                     <= SumOver(arg.X, Labelled(j)) * Cardinality(Labelled(i))

\* C13 witness: three clusters of three different means, numbered by the
\* model in another order than their severity.
C13_Witness ==
    /\ ret # <<>>
    /\ arg.n_components = 3
    /\ Cardinality(OutputLabels) = 3
    /\ \A e \in DOMAIN ret[1] : ret[1][e] # arg.clusters[e]
    /\ \A e, f \in DOMAIN arg.X : e # f => arg.X[e] # arg.X[f]

\* C14 as stated: the labels assigned are exactly 0..k-1, also when a
\* component receives no entity, and two entities share a label exactly when
\* they share a cluster.
C14_LabelsDense ==
    ret # <<>>
    => /\ OutputLabels = 0..(arg.n_components - 1)
       /\ \A e, f \in DOMAIN ret[1] :
             (ret[1][e] = ret[1][f]) <=> (arg.clusters[e] = arg.clusters[f])

\* C14 amended: the labels assigned are exactly 0..m-1 for the m components
\* that received an entity (m = k when none is empty), and two entities share
\* a label exactly when they share a cluster.
C14_LabelsDenseNonEmpty ==
    ret # <<>>
    => /\ OutputLabels =
            0..(Cardinality({arg.clusters[e] : e \in DOMAIN arg.clusters}) - 1)
       /\ \A e, f \in DOMAIN ret[1] :
             (ret[1][e] = ret[1][f]) <=> (arg.clusters[e] = arg.clusters[f])

\* C14 witness: three entities, three components, the middle component
\* received no entity.
C14_Witness ==
    /\ ret # <<>>
    /\ arg.n_components = 3
    /\ Len(arg.clusters) = 3
    /\ {arg.clusters[e] : e \in DOMAIN arg.clusters} = {0, 2}
    /\ OutputLabels = {0, 1}

\* the BIC of the model fitted for k components
BicOf(k) == arg.fit[k - arg.k_min + 1]

\* C15: find_best_k_gmm returns the k of k_min..k_max whose model has the
\* minimum BIC, together with that same model; of several k with the minimum
\* BIC it returns the smallest.
C15_BestK ==
    ret # <<>>
    => LET k == ret[1][1]
           m == ret[1][2]
       IN /\ k \in arg.k_min..arg.k_max
          /\ m = GaussianMixture(k, BicOf(k))
          /\ \A j \in arg.k_min..arg.k_max : BicOf(k) <= BicOf(j)
          /\ \A j \in arg.k_min..arg.k_max : BicOf(j) = BicOf(k) => k <= j

\* C15 witness: the minimum BIC is shared by two k, neither the first of the
\* range, and the smaller of the two is returned.
C15_Witness ==
    /\ ret # <<>>
    /\ arg.k_max >= arg.k_min + 2
    /\ BicOf(arg.k_min) > BicOf(arg.k_min + 1)
    /\ BicOf(arg.k_min + 1) = BicOf(arg.k_min + 2)
    /\ \A j \in arg.k_min..arg.k_max : BicOf(arg.k_min + 1) <= BicOf(j)
    /\ ret[1][1] = arg.k_min + 1

\* the add_rating calls of the input made inside [now - window, now] with
\* stars <= thr
CountedCalls ==
    {i \in DOMAIN arg.calls :
        /\ arg.calls[i].stars <= arg.thr
        /\ InstantLeq(minus_days(arg.now, arg.window), arg.calls[i].at)
        /\ InstantLeq(arg.calls[i].at, arg.now)}

\* C16: count_low_ratings(threshold, window) is exactly the number of stored
\* ratings with stars <= threshold created in [now - window, now], both bounds
\* inclusive.
C16_CountLowExact == ret # <<>> => ret[1] = Cardinality(CountedCalls)

\* C16 witness: a rating one microsecond before now - window is left out, and
\* a rating exactly at now - window with stars = threshold is counted.
C16_Witness ==
    /\ ret # <<>>
    /\ Len(arg.calls) = 2
    /\ arg.now.micro = 0
    /\ arg.calls[1] = [at |-> [day |-> arg.now.day - arg.window - 1, micro |-> MaxMicro],
                       stars |-> arg.thr]
    /\ arg.calls[2] = [at |-> minus_days(arg.now, arg.window), stars |-> arg.thr]
    /\ ret[1] = 1

RECURSIVE SumGrouped(_, _, _)
SumGrouped(G, K, c) ==
    IF K = {} THEN 0
    ELSE LET k == CHOOSE x \in K : TRUE IN G[k][c] + SumGrouped(G, K \ {k}, c)

\* every unified row holds the sums of its source rows and the total per
\* category is that of the source
SumsPreserved ==
    /\ \A k \in DOMAIN ret[1].grouped : \A c \in Categories :
          ret[1].grouped[k][c] =
              SumCnt(arg, {i \in DOMAIN arg : ret[1].DPTO_UNIFICADO[i] = k}, c)
    /\ \A c \in Categories :
          SumGrouped(ret[1].grouped, DOMAIN ret[1].grouped, c) = SumCnt(arg, DOMAIN arg, c)

\* C17 as stated: every name containing "LIMA" is grouped into "LIMA", every
\* name containing "CALLAO" into "CALLAO", every other name is kept unchanged,
\* and the unified rows hold the sums of their source rows.
C17_Unification ==
    ret # <<>>
    => /\ \A i \in DOMAIN arg :
             LET name == arg[i].name
                 key == ret[1].DPTO_UNIFICADO[i]
             IN /\ Contains(LIMA, name) => key = LIMA
                /\ Contains(CALLAO, name) => key = CALLAO
                /\ ~Contains(LIMA, name) /\ ~Contains(CALLAO, name) => key = name
       /\ SumsPreserved

\* C17 amended: names are compared in upper case; every name containing
\* "LIMA" is grouped into "LIMA", every name containing "CALLAO" and not
\* "LIMA" into "CALLAO", every other name is kept in upper case, and the
\* unified rows hold the sums of their source rows.
C17_UnificationUpper ==
    ret # <<>>
    => /\ \A i \in DOMAIN arg :
             LET name == upper(arg[i].name)
                 key == ret[1].DPTO_UNIFICADO[i]
             IN /\ Contains(LIMA, name) => key = LIMA
                /\ Contains(CALLAO, name) /\ ~Contains(LIMA, name) => key = CALLAO
                /\ ~Contains(LIMA, name) /\ ~Contains(CALLAO, name) => key = name
       /\ SumsPreserved

\* C17 witness: rows for LIMA NORTE and LIMA SUR, each with a count, collapse
\* into the single row LIMA holding their sums.
C17_Witness ==
    /\ ret # <<>>
    /\ Len(arg) = 2
    /\ arg[1].name = LIMA \o <<" ", "N", "O", "R", "T", "E">>
    /\ arg[2].name = LIMA \o <<" ", "S", "U", "R">>
    /\ \A c \in Categories : arg[1].cnt[c] = MaxCnt /\ arg[2].cnt[c] = MaxCnt
    /\ DOMAIN ret[1].grouped = {LIMA}
    /\ \A c \in Categories : ret[1].grouped[LIMA][c] = 2 * MaxCnt

\* the run that wrote the live file `name`, 0 when there is none
RunOf(name) == IF disk.live[name] = <<>> THEN 0 ELSE disk.live[name][1].obj.run

\* C20: artifacts and outputs stay consistent across runs. Whenever no
\* run_training is executing, the persisted model, the persisted scaler and
\* the published danger-level table of each granularity come from the same
\* training run, whether the runs before succeeded or failed part-way.
C20_ArtifactsConsistent ==
    tr.pc = "idle"
    => \A g \in Granularities :
          /\ RunOf(ModelName(g)) = RunOf(ScalerName(g))
          /\ RunOf(ModelName(g)) = disk.out[g]

\* a reader of the live path of `name` finds a file it can load
LiveComplete(name) ==
    /\ disk.live[name] # <<>>
    /\ "torn" \notin DOMAIN disk.live[name][1].obj

\* C21: the live artifact is never missing during persistence. Once
\* save_with_backup has written a name for the first time, a complete file is
\* at the live path of that name in every state of any later save_with_backup
\* of it, also between the move to the backup directory and the write of the
\* new file and when that write fails.
C21_LiveNeverMissing ==
    \A name \in ArtifactNames : tr.saves[name] >= 1 => LiveComplete(name)

====
